---- MODULE Spec2Model ----
(***************************************************************************)
(* Agent orchestrator: message bus, agent run loop, orchestrator registry  *)
(* and LLM client pool, as state machines over asyncio's cooperative       *)
(* scheduling.  One action is one run of a coroutine between two           *)
(* suspension points (an await that really yields).                        *)
(***************************************************************************)
EXTENDS Integers, Sequences, FiniteSets, TLC

(***************************************************************************)
(* Bounds of the model.                                                    *)
(***************************************************************************)
MaxAgents == 2          \* successful spawn_agent calls (fresh uuid4 identifiers)
BusAgents == 1          \* agents spawned where messages are exchanged
MaxMsgs == 2            \* messages sent by the external client
MaxRegs == 2            \* register_azure_openai calls
MaxConcurrent == 2      \* largest max_concurrent a registration declares
NumCallers == 2         \* coroutines that use LLMPool.acquire
MaxRuns == 3            \* _run_safe tasks created for one agent (start() after stop())
NumStoppers == 2        \* coroutines that call stop() on one agent
NumScopes == 2         \* callers that hold deliver scopes at the same time

(***************************************************************************)
(* Identifiers and inputs.                                                 *)
(***************************************************************************)
AgentIds == 1..MaxAgents
Client == 0                       \* an external participant ("pytest-client", "chat-client-...")
None == -1                        \* Python's None where an identifier is expected
Empty == -2                       \* the empty string "" where an identifier is expected
Participants == AgentIds \cup {Client}
Runs == 1..MaxRuns                \* the tasks start() may create for one agent, in order
Stoppers == 1..NumStoppers        \* the stop() coroutines of one agent; a terminate_* call is the first
NoTask == 0                       \* Agent._runner is None
ScopeHolders == 1..NumScopes     \* callers of "async with bus.deliver(id)" other than the agents' loops
NoScope == [id |-> None, own |-> FALSE]

Catalog == {"echo", "llm", "custom"}          \* agent_catalog keys
RoleInputs == Catalog \cup {"unknown-role"}
McpServers == {"echo"}                        \* MCPRegistry._servers keys
McpInputs == McpServers \cup {"missing"}
Sessions == {"s1", "s2"}                      \* metadata["session_id"] values
Payloads == {"ping", "notdict"}               \* {"content": "ping"}; a payload that is no mapping
NoError == "null"

NoCfg == [role |-> "none", session |-> "none"]
NoCorr == "null"                  \* correlation_id is None
Corrs == {NoCorr, "c1"}
NoMsg == [seq |-> 0, sender |-> None, recipient |-> None, payload |-> "none", corr |-> NoCorr]
NoDescriptor == [agent_id |-> None, state |-> "NONE", task_count |-> 0, last_error |-> NoError]

VARIABLES
    \* Orchestrator
    nextId,          \* identifiers handed out so far (uuid4 is fresh each time)
    agents,          \* keys of Orchestrator._agents
    calls,           \* terminate_* calls that are awaiting their stop()s (pre: the
                     \* identifiers handed out when the call took its entries)
    spawnPc,         \* per agent: the start() caller, blocked on the barrier or returned
    stopPc,          \* per agent and stopper: where that stop() coroutine is
    awaited,         \* per agent and stopper: the task its "await self._runner" waits for
    \* AgentDescriptor / Agent
    cfg, dstate, task_count, last_error,
    runner,          \* Agent._runner: the task it refers to, or NoTask
    runs,            \* per agent: the _run_safe tasks created so far
    tpc,             \* per agent: where each of its _run_safe tasks is, in order of creation
    stop_event, started_event,
    cur,             \* per agent: the message each task's handle_message is working on
    on_stop_calls,   \* per agent: invocations of the on_stop hook
    \* A2AMessageBus
    boxes,           \* keys of _mailboxes
    queue,           \* contents of each mailbox queue
    sent,            \* number of bus.send calls so far (the send order)
    scopes,          \* identifiers some caller holds an open "async with bus.deliver(id)" for
    held,            \* per holder of a deliver scope: the identifier, and whether the queue it
                     \* was given is still the one registered under that identifier
    \* observation of the run
    handled,         \* per agent: the send numbers of the messages passed to handle_message, in order
    inserted,        \* identifiers spawn_agent put into the registry
    removed,         \* identifiers a terminate_* call took out of the registry
    last,            \* the last step of a call of the public interface
    \* LLMPool
    clients, initialized, semOf, sems, nsems, ppc, pname, psem, pgot, openaiInstalled

orchVars == <<nextId, agents, calls, spawnPc, stopPc, awaited>>
agentVars == <<cfg, dstate, task_count, last_error, runner, runs, tpc, stop_event,
               started_event, cur, on_stop_calls>>
busVars == <<boxes, queue, sent>>
obsVars == <<handled, inserted, removed>>
poolVars == <<clients, initialized, semOf, sems, nsems, ppc, pname, psem, pgot, openaiInstalled>>
vars == <<orchVars, agentVars, busVars, obsVars, last, poolVars, scopes, held>>

\* the tasks start() has created for agent a
RunsOf(a) == 1..runs[a]

Ev(op, id, s, out, set) == [op |-> op, id |-> id, s |-> s, out |-> out, set |-> set]
Internal == Ev("internal", None, "", "", {})

(***************************************************************************)
(* A2AMessageBus                                                           *)
(***************************************************************************)
\* register: touching the defaultdict creates the queue when it is missing.
Register_skip(bx, id) == bx
Register(bx, id) == bx \cup {id}

\* unregister: pop(agent_id, None); the queue object goes with its contents.
UnregisterBoxes_keep(bx, id) == bx
UnregisterBoxes(bx, id) == bx \ {id}
\* the queue object popped from _mailboxes stays with the scopes it was
\* yielded to, no longer registered
UnregisterHeld(hd, id) == [h \in ScopeHolders |-> IF hd[h].id = id THEN [hd[h] EXCEPT !.own = FALSE] ELSE hd[h]]
UnregisterQueue_all(q, id) == [p \in DOMAIN q |-> <<>>]
UnregisterQueue(q, id) == [q EXCEPT ![id] = <<>>]

\* queue.put on an unbounded asyncio.Queue: appended at the tail, never blocks.
Enqueue_lifo(q, m) == <<m>> \o q
Enqueue(q, m) == Append(q, m)

\* "if message.recipient_id:" tests the truth value: None and "" are both false.
Truthy(r) == r \notin {None, Empty}

\* the broadcast loop: "if agent_id == message.sender_id: continue"
BroadcastSkips_none(p, m) == FALSE
BroadcastSkips(p, m) == p = m.sender

\* send: point-to-point when recipient_id is true, else to every mailbox but the sender's.
Send(q, bx, m) ==
    IF Truthy(m.recipient)
    THEN IF m.recipient \in bx
         THEN [q EXCEPT ![m.recipient] = Enqueue(@, m)]
         ELSE q
    ELSE [p \in Participants |->
            IF p \in bx /\ ~BroadcastSkips(p, m) THEN Enqueue(q[p], m) ELSE q[p]]

(***************************************************************************)
(* Agent hooks and handlers of the catalog roles                           *)
(***************************************************************************)
\* Whether a hook or handler of this role can raise: EchoAgent's hooks only assign
\* the state; a "custom" role stands for any Agent subclass, whose overridden
\* hooks and handler may raise.
MayFault(role) == IF role = "custom" THEN BOOLEAN ELSE {FALSE}

\* EchoAgent.on_stop assigns STOPPED; the base hook leaves the state alone.
OnStopState(role, st) == IF role = "echo" THEN "STOPPED" ELSE st

\* f"{name} heard {payload.get('content', '')}"
Heard(p) == IF p = "ping" THEN "heard ping" ELSE "heard "

\* EchoAgent.handle_message: payload.get raises on a payload that is no mapping.
EchoFaults(m) == m.payload = "notdict"
EchoReply_nocorr(a, m, n) ==
    [seq |-> n, sender |-> a, recipient |-> m.sender, payload |-> Heard(m.payload),
     corr |-> NoCorr]
EchoReply(a, m, n) ==
    [seq |-> n, sender |-> a, recipient |-> m.sender, payload |-> Heard(m.payload),
     corr |-> m.corr]

(***************************************************************************)
(* Agent._run_safe                                                         *)
(***************************************************************************)
\* finally: await self.on_stop(), on every way out of the loop.
OnStopRuns_cleanOnly(cause) == IF cause = NoError THEN 1 ELSE 0
OnStopRuns(cause) == 1

\* Leaving the loop: deliver's finally unregisters, the except/else branch
\* writes the state, the finally branch runs on_stop (which may raise).
ExitLoop(a, k, q, cause, stopFault) ==
    /\ boxes' = UnregisterBoxes(boxes, a)
    /\ queue' = UnregisterQueue(q, a)
    /\ held' = UnregisterHeld(held, a)
    /\ dstate' = [dstate EXCEPT ![a] =
                    IF OnStopRuns(cause) = 1
                    THEN OnStopState(cfg[a].role, IF cause = NoError THEN "STOPPED" ELSE "FAILED")
                    ELSE IF cause = NoError THEN "STOPPED" ELSE "FAILED"]
    /\ last_error' = [last_error EXCEPT ![a] = IF cause = NoError THEN @ ELSE cause]
    /\ started_event' = [started_event EXCEPT ![a] = TRUE]
    /\ on_stop_calls' = [on_stop_calls EXCEPT ![a] = @ + OnStopRuns(cause)]
    /\ tpc' = [tpc EXCEPT ![a][k] = IF stopFault THEN "raised" ELSE "done"]

\* "while not self._stop_event.is_set()", tested after each iteration.
LoopContinues_ever(a) == TRUE
LoopContinues(a) == ~stop_event[a]

\* After one iteration: a fault leaves through except, a set stop event ends
\* the while loop, otherwise the loop waits for the next message.
LoopNext(a, k, q, cause, stopFault) ==
    IF cause # NoError \/ ~LoopContinues(a)
    THEN ExitLoop(a, k, q, cause, stopFault)
    ELSE /\ boxes' = boxes
         /\ queue' = q
         /\ tpc' = [tpc EXCEPT ![a][k] = "waiting"]
         /\ UNCHANGED <<dstate, last_error, started_event, on_stop_calls, held>>

\* The task's first run: deliver registers the mailbox, the state becomes
\* RUNNING, the readiness barrier is released, on_start runs, the loop condition
\* is tested; nothing in between yields.
RunStart(a, k) ==
    /\ tpc[a][k] = "created"
    /\ \E startFault \in MayFault(cfg[a].role), stopFault \in MayFault(cfg[a].role) :
         IF startFault \/ stop_event[a]
         THEN ExitLoop(a, k, queue, IF startFault THEN "on_start raised" ELSE NoError, stopFault)
         ELSE /\ boxes' = Register(boxes, a)
              /\ dstate' = [dstate EXCEPT ![a] = "RUNNING"]
              /\ started_event' = [started_event EXCEPT ![a] = TRUE]
              /\ tpc' = [tpc EXCEPT ![a][k] = "waiting"]
              /\ UNCHANGED <<queue, last_error, on_stop_calls, held>>
    /\ last' = Internal
    /\ UNCHANGED <<orchVars, cfg, task_count, runner, runs, stop_event, cur, sent, obsVars,
                   poolVars, scopes>>

\* inbox.get() returns the head of the queue.
Dequeue_tail(q) == [msg |-> q[Len(q)], rest |-> SubSeq(q, 1, Len(q) - 1)]
Dequeue(q) == [msg |-> Head(q), rest |-> Tail(q)]

\* wait_for(inbox.get()) yields a message: handle_message is entered with it.
Receive(a, k) ==
    /\ tpc[a][k] = "waiting"
    /\ queue[a] # <<>>
    /\ LET d == Dequeue(queue[a])
       IN /\ queue' = [queue EXCEPT ![a] = d.rest]
          /\ cur' = [cur EXCEPT ![a][k] = d.msg]
          /\ handled' = [handled EXCEPT ![a] = Append(@, d.msg.seq)]
    /\ tpc' = [tpc EXCEPT ![a][k] = "handling"]
    /\ last' = Internal
    /\ UNCHANGED <<orchVars, cfg, dstate, task_count, last_error, runner, runs, stop_event,
                   started_event, on_stop_calls, boxes, sent, inserted, removed, poolVars, scopes, held>>

\* What a handle_message call ends with: a return, an exception, or an exception
\* that is a TimeoutError (asyncio.TimeoutError is the builtin TimeoutError).
HandlerEnds(role) == IF role = "custom" THEN {"return", "error", "timeout"} ELSE {"return"}

\* "except asyncio.TimeoutError" around the receive wait and the handler call.
CaughtAsIdle(kind) == kind = "timeout"

\* _handle_message: "self.descriptor.task_count += 1" follows the awaited handler call.
TaskCountAfter_always(n, fault) == n + 1
TaskCountAfter(n, fault) == IF fault THEN n ELSE n + 1

\* handle_message finishes: the echo agent replies to the sender, a TimeoutError
\* goes to the idle branch, another fault leaves the loop, otherwise task_count
\* is incremented and the loop goes on.
HandleDone(a, k) ==
    /\ tpc[a][k] = "handling"
    /\ \E hEnd \in HandlerEnds(cfg[a].role), stopFault \in MayFault(cfg[a].role) :
         LET m == cur[a][k]
             kind == IF cfg[a].role = "echo" /\ EchoFaults(m) THEN "error" ELSE hEnd
             fault == kind = "error"
             answers == cfg[a].role = "echo" /\ ~fault
             q1 == IF answers THEN Send(queue, boxes, EchoReply(a, m, sent + 1)) ELSE queue
         IN IF CaughtAsIdle(kind)
            THEN \* on_idle is entered while the message of this iteration is at hand
                 /\ tpc' = [tpc EXCEPT ![a][k] = "idling"]
                 /\ UNCHANGED <<sent, task_count, boxes, queue, dstate, last_error,
                                started_event, on_stop_calls, cur, held>>
            ELSE /\ sent' = IF answers THEN sent + 1 ELSE sent
                 /\ task_count' = [task_count EXCEPT ![a] = TaskCountAfter(@, fault)]
                 /\ LoopNext(a, k, q1, IF fault THEN "handle_message raised" ELSE NoError, stopFault)
                 /\ cur' = [cur EXCEPT ![a][k] = NoMsg]
    /\ last' = Internal
    /\ UNCHANGED <<orchVars, cfg, runner, runs, stop_event, handled, inserted, removed, poolVars, scopes>>

\* wait_for times out on an empty mailbox: on_idle runs.
Idle(a, k) ==
    /\ tpc[a][k] = "waiting"
    /\ queue[a] = <<>>
    /\ \E iFault \in MayFault(cfg[a].role), stopFault \in MayFault(cfg[a].role) :
         LoopNext(a, k, queue, IF iFault THEN "on_idle raised" ELSE NoError, stopFault)
    /\ last' = Internal
    /\ UNCHANGED <<orchVars, cfg, task_count, runner, runs, stop_event, cur, sent, obsVars,
                   poolVars, scopes>>

\* The on_idle entered from the handler's TimeoutError finishes: a fault leaves
\* the loop, otherwise the loop goes on.
IdleDone(a, k) ==
    /\ tpc[a][k] = "idling"
    /\ \E iFault \in MayFault(cfg[a].role), stopFault \in MayFault(cfg[a].role) :
         LoopNext(a, k, queue, IF iFault THEN "on_idle raised" ELSE NoError, stopFault)
    /\ cur' = [cur EXCEPT ![a][k] = NoMsg]
    /\ last' = Internal
    /\ UNCHANGED <<orchVars, cfg, task_count, runner, runs, stop_event, sent, obsVars,
                   poolVars, scopes>>

(***************************************************************************)
(* Agent.start / Agent.stop                                                *)
(***************************************************************************)
\* start() launches a loop only when no runner is set.
StartLaunches_always(a) == TRUE
StartLaunches(a) == runner[a] = NoTask

\* start() past its guard: the events are cleared, the task is created and the
\* caller waits on the started event.
Launch(a) ==
    /\ stop_event' = [stop_event EXCEPT ![a] = FALSE]
    /\ started_event' = [started_event EXCEPT ![a] = FALSE]
    /\ runs' = [runs EXCEPT ![a] = @ + 1]
    /\ runner' = [runner EXCEPT ![a] = runs[a] + 1]
    /\ tpc' = [tpc EXCEPT ![a] = Append(@, "created")]
    /\ cur' = [cur EXCEPT ![a] = Append(@, NoMsg)]
    /\ spawnPc' = [spawnPc EXCEPT ![a] = "waiting"]

\* What "await self._runner" does when reached: it waits for a task that is
\* not finished, and otherwise ends at once, returning or raising what the
\* task raised.
StopOutcomeNow(a) ==
    IF runner[a] = NoTask \/ tpc[a][runner[a]] = "done" THEN "returned"
    ELSE IF tpc[a][runner[a]] = "raised" THEN "raised" ELSE "awaiting"

\* stop() up to its await: nothing when no runner is set; else the state is
\* written, the event set and the runner awaited; _runner is cleared when the
\* await returns.
StopEnter(a, c) ==
    IF runner[a] = NoTask
    THEN /\ stopPc' = [stopPc EXCEPT ![a][c] = "returned"]
         /\ UNCHANGED <<dstate, stop_event, runner, awaited>>
    ELSE /\ dstate' = [dstate EXCEPT ![a] = "STOPPING"]
         /\ stop_event' = [stop_event EXCEPT ![a] = TRUE]
         /\ awaited' = [awaited EXCEPT ![a][c] = runner[a]]
         /\ stopPc' = [stopPc EXCEPT ![a][c] =
                IF StopOutcomeNow(a) = "awaiting" THEN "joining" ELSE StopOutcomeNow(a)]
         /\ runner' = [runner EXCEPT ![a] = IF StopOutcomeNow(a) = "returned" THEN NoTask ELSE @]

(***************************************************************************)
(* Orchestrator                                                            *)
(***************************************************************************)
\* _resolve_agent_class, then MCPRegistry.get, then the constructor.  No LLM
\* pool is wired (set_llm_pool was not called), so LLMAgent's constructor is
\* called without its llm_pool argument and raises.
ConstructorRaises(role) == role = "llm"

SpawnOutcome_default(role, mcp) ==
    IF mcp \notin McpServers THEN "TargetNotFound"
    ELSE IF role \in Catalog /\ ConstructorRaises(role) THEN "ConstructFault"
    ELSE "ok"
SpawnOutcome(role, mcp) ==
    IF role \notin Catalog THEN "RoleNotFound"
    ELSE IF mcp \notin McpServers THEN "TargetNotFound"
    ELSE IF ConstructorRaises(role) THEN "ConstructFault"
    ELSE "ok"

\* The registry insert comes after both validations and the constructor.
SpawnInserts_early(out) == out \in {"ok", "ConstructFault"}
SpawnInserts(out) == out = "ok"

\* _agents.pop / _agents.clear
RegistryPop_keep(reg, ids) == reg
RegistryPop(reg, ids) == reg \ ids

\* the entries whose metadata carries the session
SessionAgents_all(s) == agents
SessionAgents(s) == {a \in agents : cfg[a].session = s}

\* get_agent / list_agents / list_agents_by_session
Descriptor(a) ==
    [agent_id |-> a, state |-> dstate[a], task_count |-> task_count[a],
     last_error |-> last_error[a]]
GetAgent(id) == IF id \in agents THEN Descriptor(id) ELSE NoDescriptor
ListAgents == {Descriptor(a) : a \in agents}
ListBySession(s) == {Descriptor(a) : a \in {b \in agents : cfg[b].session = s}}

\* gather(..., return_exceptions=True): done when every stop() is, and a stop()
\* that raised is a result, not an exception of the gather.
GatherReady_eager(targets) == TRUE
GatherReady(targets) == \A a \in targets : stopPc[a][1] \in {"returned", "raised"}
GatherResult_propagate(targets) ==
    IF \E a \in targets : stopPc[a][1] = "raised" THEN "raised" ELSE "returned"
GatherResult(targets) == "returned"

SpawnAgent(role, mcp, s) ==
    LET out == SpawnOutcome(role, mcp)
        id == nextId + 1
    IN /\ SpawnInserts(out) => nextId < MaxAgents
       /\ last' = Ev("spawn_agent", IF out = "ok" THEN id ELSE None, role, out, {})
       /\ IF SpawnInserts(out)
          THEN /\ nextId' = id
               /\ cfg' = [cfg EXCEPT ![id] = [role |-> role, session |-> s]]
               /\ dstate' = [dstate EXCEPT ![id] = "SPAWNING"]
               /\ agents' = agents \cup {id}
               /\ inserted' = inserted \cup {id}
          ELSE UNCHANGED <<nextId, cfg, dstate, agents, inserted>>
       /\ IF out = "ok"
          THEN Launch(id)    \* start() on the new agent
          ELSE UNCHANGED <<stop_event, started_event, runner, runs, tpc, cur, spawnPc>>
       /\ UNCHANGED <<calls, stopPc, awaited, task_count, last_error, on_stop_calls,
                      busVars, handled, removed, poolVars, scopes, held>>

\* start() resumes once the started event was set, and spawn_agent returns the descriptor.
SpawnReturn(a) ==
    /\ spawnPc[a] = "waiting"
    /\ started_event[a]
    /\ spawnPc' = [spawnPc EXCEPT ![a] = "returned"]
    /\ last' = Ev("start_returned", a, dstate[a], "", {})
    /\ UNCHANGED <<nextId, agents, calls, stopPc, awaited, agentVars, busVars, obsVars,
                   poolVars, scopes, held>>

\* terminate_agent: pop under the lock, then stop() in the same coroutine; with
\* no entry under id the call returns at once ("observed": that return is
\* recorded in last when id was registered before).
TerminateAgentCall(id, observed) ==
    IF id \notin agents
    THEN /\ last' = IF observed /\ id \in removed
                    THEN Ev("terminate_agent_return", id, "", "absent", {})
                    ELSE Internal
         /\ UNCHANGED <<orchVars, agentVars, busVars, obsVars, poolVars, scopes, held>>
    ELSE /\ agents' = RegistryPop(agents, {id})
         /\ removed' = removed \cup {id}
         /\ StopEnter(id, 1)
         /\ last' = IF StopOutcomeNow(id) = "awaiting" THEN Internal
                    ELSE Ev("terminate_agent_return", id, "", StopOutcomeNow(id), {id})
         /\ calls' = IF StopOutcomeNow(id) = "awaiting"
                     THEN calls \cup {[kind |-> "agent", targets |-> {id}, s |-> "", pre |-> nextId]}
                     ELSE calls
         /\ UNCHANGED <<nextId, spawnPc, cfg, task_count, last_error, runs, tpc,
                        started_event, cur, on_stop_calls, busVars, handled,
                        inserted, poolVars, scopes, held>>

TerminateAgent(id) == TerminateAgentCall(id, FALSE)
TerminateAgentSeen(id) == TerminateAgentCall(id, TRUE)

\* terminate_all / terminate_session: the entries leave the registry under the
\* lock; gather wraps each stop() in a task that starts later.
TerminateMany(kind, s, targets) ==
    /\ agents' = RegistryPop(agents, targets)
    /\ removed' = removed \cup targets
    /\ stopPc' = [a \in AgentIds |->
                    IF a \in targets THEN [stopPc[a] EXCEPT ![1] = "scheduled"] ELSE stopPc[a]]
    /\ last' = Ev(kind, nextId, s, IF targets = {} THEN "returned" ELSE "awaiting", targets)
    /\ calls' = IF targets = {} THEN calls
                ELSE calls \cup {[kind |-> kind, targets |-> targets, s |-> s, pre |-> nextId]}
    /\ UNCHANGED <<nextId, spawnPc, awaited, agentVars, busVars, handled, inserted,
                   poolVars, scopes, held>>

TerminateAll == TerminateMany("terminate_all", "", agents)
TerminateSession(s) == TerminateMany("terminate_session", s, SessionAgents(s))

\* a stop() task of a gather starts
StopBegin(a) ==
    /\ stopPc[a][1] = "scheduled"
    /\ StopEnter(a, 1)
    /\ last' = Internal
    /\ UNCHANGED <<nextId, agents, calls, spawnPc, cfg, task_count, last_error, runs, tpc,
                   started_event, cur, on_stop_calls, busVars, obsVars, poolVars, scopes, held>>

\* stop() resumes after the runner task ended: _runner is cleared, or the task's
\* exception is raised again; terminate_agent ends with its stop().
StopResume(a, c) ==
    /\ stopPc[a][c] = "joining"
    /\ tpc[a][awaited[a][c]] \in {"done", "raised"}
    /\ LET how == IF tpc[a][awaited[a][c]] = "done" THEN "returned" ELSE "raised"
           mine == {x \in calls : x.kind = "agent" /\ a \in x.targets /\ c = 1}
       IN /\ stopPc' = [stopPc EXCEPT ![a][c] = how]
          /\ runner' = [runner EXCEPT ![a] = IF how = "returned" THEN NoTask ELSE @]
          /\ calls' = calls \ mine
          /\ last' = IF mine # {} THEN Ev("terminate_agent_return", a, "", how, {a})
                     ELSE Internal
    /\ UNCHANGED <<nextId, agents, spawnPc, awaited, cfg, dstate, task_count, last_error,
                   runs, tpc, stop_event, started_event, cur, on_stop_calls, busVars, obsVars,
                   poolVars, scopes, held>>

\* the gather of a terminate_all / terminate_session is done and the call returns
TerminateReturn(c) ==
    /\ c \in calls
    /\ c.kind # "agent"
    /\ GatherReady(c.targets)
    /\ calls' = calls \ {c}
    /\ last' = Ev(IF c.kind = "terminate_all" THEN "terminate_all_return"
                  ELSE "terminate_session_return",
                  c.pre, c.s, GatherResult(c.targets), c.targets)
    /\ UNCHANGED <<nextId, agents, spawnPc, stopPc, awaited, agentVars, busVars, obsVars,
                   poolVars, scopes, held>>

(***************************************************************************)
(* An agent object used directly: constructor, start(), stop()             *)
(***************************************************************************)
\* Agent.__init__ with a fresh descriptor: state SPAWNING, no runner, not in
\* the registry.
Construct(role) ==
    /\ nextId < BusAgents
    /\ nextId' = nextId + 1
    /\ cfg' = [cfg EXCEPT ![nextId + 1] = [role |-> role, session |-> "s1"]]
    /\ dstate' = [dstate EXCEPT ![nextId + 1] = "SPAWNING"]
    /\ last' = Internal
    /\ UNCHANGED <<agents, calls, spawnPc, stopPc, awaited, task_count, last_error, runner,
                   runs, tpc, stop_event, started_event, cur, on_stop_calls, busVars, obsVars,
                   poolVars, scopes, held>>

\* start(): returns at once when a runner is set, else launches the loop and
\* waits on the barrier (one caller at a time waits there).
Start(a) ==
    /\ a <= nextId
    /\ IF StartLaunches(a)
       THEN /\ runs[a] < MaxRuns
            /\ spawnPc[a] # "waiting"
            /\ Launch(a)
            /\ last' = Ev("start", a, dstate[a], "launched", {})
       ELSE /\ last' = Ev("start", a, dstate[a], "returned", {})
            /\ UNCHANGED <<stop_event, started_event, runner, runs, tpc, cur, spawnPc>>
    /\ UNCHANGED <<nextId, agents, calls, stopPc, awaited, cfg, dstate, task_count, last_error,
                   on_stop_calls, busVars, obsVars, poolVars, scopes, held>>

\* stop() called by stopper c, up to its await.
Stop(a, c) ==
    /\ a <= nextId
    /\ stopPc[a][c] \notin {"scheduled", "joining"}
    /\ StopEnter(a, c)
    /\ last' = Ev("stop", a, dstate[a], StopOutcomeNow(a), {c})
    /\ UNCHANGED <<nextId, agents, calls, spawnPc, cfg, task_count, last_error, runs, tpc,
                   started_event, cur, on_stop_calls, busVars, obsVars, poolVars, scopes, held>>

(***************************************************************************)
(* The external client: dispatch / bus.send, and its own mailbox scope     *)
(***************************************************************************)
\* "observed": the call is recorded in last with its recipient.
ClientSendCall(r, p, c, observed) ==
    /\ sent < MaxMsgs
    /\ sent' = sent + 1
    /\ queue' = Send(queue, boxes,
                     [seq |-> sent + 1, sender |-> Client, recipient |-> r, payload |-> p,
                      corr |-> c])
    /\ last' = IF observed THEN Ev("send", Client, "", "returned", {r}) ELSE Internal
    /\ UNCHANGED <<orchVars, agentVars, boxes, obsVars, poolVars, scopes, held>>

ClientSend(r, p, c) == ClientSendCall(r, p, c, FALSE)
ClientSendSeen(r, p, c) == ClientSendCall(r, p, c, TRUE)

\* async with bus.deliver(client_id): entering registers, leaving unregisters
ClientOpen ==
    /\ Client \notin boxes
    /\ boxes' = Register(boxes, Client)
    /\ last' = Internal
    /\ UNCHANGED <<orchVars, agentVars, queue, sent, obsVars, poolVars, scopes, held>>

ClientClose ==
    /\ Client \in boxes
    /\ boxes' = UnregisterBoxes(boxes, Client)
    /\ queue' = UnregisterQueue(queue, Client)
    /\ held' = UnregisterHeld(held, Client)
    /\ last' = Internal
    /\ UNCHANGED <<orchVars, agentVars, sent, obsVars, poolVars, scopes>>

ClientRecv ==
    /\ Client \in boxes
    /\ queue[Client] # <<>>
    /\ queue' = [queue EXCEPT ![Client] = Dequeue(@).rest]
    /\ last' = Internal
    /\ UNCHANGED <<orchVars, agentVars, boxes, sent, obsVars, poolVars, scopes, held>>

(***************************************************************************)
(* The bus taken alone: any caller registers, unregisters, sends, or holds *)
(* a deliver scope for an identifier                                       *)
(***************************************************************************)
Parties == {Client} \cup (1..BusAgents)
Senders == {Client, Empty}
Recipients == Parties \cup {None, Empty}
ExitPaths == {"return", "raise"}      \* how the body of the "async with" ends

BusRegister(id) ==
    /\ boxes' = Register(boxes, id)
    /\ last' = Internal
    /\ UNCHANGED <<orchVars, agentVars, queue, sent, obsVars, poolVars, scopes, held>>

BusUnregister(id) ==
    /\ boxes' = UnregisterBoxes(boxes, id)
    /\ queue' = UnregisterQueue(queue, id)
    /\ held' = UnregisterHeld(held, id)
    /\ last' = Internal
    /\ UNCHANGED <<orchVars, agentVars, sent, obsVars, poolVars, scopes>>

\* await self.register(agent_id); yield self._mailboxes[agent_id]
DeliverEnter(id) ==
    /\ id \notin scopes
    /\ scopes' = scopes \cup {id}
    /\ boxes' = Register(boxes, id)
    /\ last' = Ev("deliver_enter", id, "", "", {})
    /\ UNCHANGED <<orchVars, agentVars, queue, sent, obsVars, poolVars, held>>

\* finally: await self.unregister(agent_id), then the body's exception, if any, goes on
DeliverExit(id, how) ==
    /\ id \in scopes
    /\ scopes' = scopes \ {id}
    /\ boxes' = UnregisterBoxes(boxes, id)
    /\ queue' = UnregisterQueue(queue, id)
    /\ held' = UnregisterHeld(held, id)
    /\ last' = Ev("deliver_exit", id, "", how, {})
    /\ UNCHANGED <<orchVars, agentVars, sent, obsVars, poolVars>>

\* deliver(id) entered by holder h, also while other scopes for id are open:
\* register creates a queue only when none is there, and the scope is given the
\* queue found under id.
ScopeEnter(h, id) ==
    /\ held[h] = NoScope
    /\ boxes' = Register(boxes, id)
    /\ held' = [held EXCEPT ![h] = [id |-> id, own |-> TRUE]]
    /\ last' = Ev("deliver_enter", id, "", "", {h})
    /\ UNCHANGED <<orchVars, agentVars, queue, sent, obsVars, poolVars, scopes>>

\* holder h leaves its scope: unregister pops whatever is registered under the
\* scope's identifier.
ScopeExit(h, how) ==
    /\ held[h] # NoScope
    /\ boxes' = UnregisterBoxes(boxes, held[h].id)
    /\ queue' = UnregisterQueue(queue, held[h].id)
    /\ held' = UnregisterHeld([held EXCEPT ![h] = NoScope], held[h].id)
    /\ last' = Ev("deliver_exit", held[h].id, "", how, {h})
    /\ UNCHANGED <<orchVars, agentVars, sent, obsVars, poolVars, scopes>>

BusMessage(s, r, n) ==
    [seq |-> n, sender |-> s, recipient |-> r, payload |-> "ping", corr |-> NoCorr]

\* await bus.send(A2AMessage(sender_id=s, recipient_id=r, ...))
BusSend(s, r) ==
    /\ sent < MaxMsgs
    /\ sent' = sent + 1
    /\ queue' = Send(queue, boxes, BusMessage(s, r, sent + 1))
    /\ last' = Ev("send", s, "", "returned", {r})
    /\ UNCHANGED <<orchVars, agentVars, boxes, obsVars, poolVars, scopes, held>>

(***************************************************************************)
(* The chat endpoint and the orchestrator agent that answers it            *)
(***************************************************************************)
OrchId == 1                       \* get_orchestrator_agent_id()
ChatCorr == "c1"                  \* the request's correlation_id (a fresh uuid4)

\* chat, up to its wait: deliver(client_id) registers, the request is sent.
ChatBegin ==
    /\ Client \notin scopes
    /\ sent < MaxMsgs
    /\ scopes' = scopes \cup {Client}
    /\ boxes' = Register(boxes, Client)
    /\ sent' = sent + 1
    /\ queue' = Send(queue, Register(boxes, Client),
                     [seq |-> sent + 1, sender |-> Client, recipient |-> OrchId,
                      payload |-> "ping", corr |-> ChatCorr])
    /\ last' = Internal
    /\ UNCHANGED <<orchVars, agentVars, obsVars, poolVars, held>>

\* Which message of the mailbox chat takes as the reply: inbox.get(), the head.
ChatTakes(q) == IF q # <<>> THEN Head(q) ELSE NoMsg

\* wait_for(inbox.get(), 30.0) ends: with the message taken, or with the timeout
\* on a mailbox from which nothing was taken; leaving the scope unregisters.
ChatReturn ==
    /\ Client \in scopes
    /\ LET m == ChatTakes(queue[Client])
       IN last' = IF m # NoMsg
                  THEN Ev("chat", m.sender, m.payload, "reply", {m.corr})
                  ELSE Ev("chat", None, "", "busy", {})
    /\ scopes' = scopes \ {Client}
    /\ boxes' = UnregisterBoxes(boxes, Client)
    /\ queue' = UnregisterQueue(queue, Client)
    /\ held' = UnregisterHeld(held, Client)
    /\ UNCHANGED <<orchVars, agentVars, sent, obsVars, poolVars>>

\* OrchestratorAgent.handle_message on the head of its mailbox: the reply goes
\* to the sender with the request's correlation_id.
OrchestratorReply ==
    /\ OrchId \in boxes
    /\ queue[OrchId] # <<>>
    /\ sent < MaxMsgs
    /\ LET m == Head(queue[OrchId])
           q1 == [queue EXCEPT ![OrchId] = Tail(@)]
       IN queue' = Send(q1, boxes,
                        [seq |-> sent + 1, sender |-> OrchId, recipient |-> m.sender,
                         payload |-> "response", corr |-> m.corr])
    /\ sent' = sent + 1
    /\ last' = Internal
    /\ UNCHANGED <<orchVars, agentVars, boxes, obsVars, poolVars, scopes, held>>

(***************************************************************************)
(* LLMPool                                                                 *)
(***************************************************************************)
PoolNames == {"gpt-4", "gpt-35-turbo"}
Callers == 1..NumCallers
SemIds == 1..MaxRegs
nonOrchVars == <<agentVars, busVars, obsVars, scopes, held>>

\* `model_name not in self._clients`
IsRegistered(n) == clients[n] # "absent"

\* asyncio.Semaphore.locked(): no free slot, or a waiter that was not cancelled
\* (a waiter that was granted a slot stays in _waiters until it resumes).
Locked(S, s) == S[s].value = 0 \/ S[s].waiters # <<>>

\* _wake_up_next: the first waiter whose future is not done yet, 0 if none
FirstBlocked(S, s, pc) ==
    LET w == S[s].waiters
        idx == {i \in 1..Len(w) : pc[w[i]] = "blocked"}
    IN IF idx = {} THEN 0 ELSE w[CHOOSE i \in idx : \A j \in idx : i <= j]

\* Semaphore.release(): the counter goes up and _wake_up_next hands the slot to
\* the first waiter, taking it off the counter again on the waiter's behalf.
ReleaseSems(S, s, pc) ==
    IF FirstBlocked(S, s, pc) = 0
    THEN [S EXCEPT ![s].value = @ + 1]
    ELSE S
ReleasePc_nowake(S, s, pc) == pc
ReleasePc(S, s, pc) ==
    IF FirstBlocked(S, s, pc) = 0
    THEN pc
    ELSE [pc EXCEPT ![FirstBlocked(S, s, pc)] = "granted"]

\* acquire's finally when _initialize_client raised: the slot is released
InitFaultSems_leak(S, s, pc) == S
InitFaultSems(S, s, pc) == ReleaseSems(S, s, pc)
InitFaultPc(S, s, pc) == ReleasePc(S, s, pc)

\* _initialize_client on a registered configuration: a mock client when openai
\* cannot be imported, the real client when its constructor accepts the
\* configuration, else the constructor's exception.
InitResult(c) ==
    IF c \in {"config", "config_bad"}
    THEN IF ~openaiInstalled THEN "mock"
         ELSE IF c = "config" THEN "real" ELSE "raise"
    ELSE c

\* The part of acquire after the slot was obtained (S, pc: the semaphores and
\* the callers at that point): lazy initialisation, then the client is yielded
\* to the caller's body; a constructor fault passes through the finally.
EnterScope(p, n, s, S, pc, op) ==
    LET r == IF initialized[n] THEN clients[n] ELSE InitResult(clients[n])
    IN IF r = "raise"
       THEN /\ sems' = InitFaultSems(S, s, pc)
            /\ ppc' = [InitFaultPc(S, s, pc) EXCEPT ![p] = "idle"]
            /\ pname' = [pname EXCEPT ![p] = "none"]
            /\ psem' = [psem EXCEPT ![p] = 0]
            /\ last' = Ev(op, p, n, "ConstructFault", {})
            /\ UNCHANGED <<clients, initialized, pgot>>
       ELSE /\ sems' = S
            /\ ppc' = [pc EXCEPT ![p] = "holding"]
            /\ pname' = [pname EXCEPT ![p] = n]
            /\ psem' = [psem EXCEPT ![p] = s]
            /\ pgot' = [pgot EXCEPT ![p] = r]
            /\ clients' = [clients EXCEPT ![n] = r]
            /\ initialized' = [initialized EXCEPT ![n] = TRUE]
            /\ last' = Ev(op, p, n, "entered", {})

\* "self._clients[name] = config": what register_azure_openai stores under the
\* name is the configuration (one the client constructor accepts, or not).
RegisteredClient_eager(ok) == IF ok THEN "real" ELSE "config_bad"
RegisteredClient(ok) == IF ok THEN "config" ELSE "config_bad"

\* register_azure_openai: the configuration, a new semaphore and a cleared flag
\* replace whatever the name had.
RegisterAzureOpenAI(n, k, ok) ==
    /\ nsems < MaxRegs
    /\ nsems' = nsems + 1
    /\ clients' = [clients EXCEPT ![n] = RegisteredClient(ok)]
    /\ sems' = [sems EXCEPT ![nsems + 1] = [cap |-> k, value |-> k, waiters |-> <<>>]]
    /\ semOf' = [semOf EXCEPT ![n] = nsems + 1]
    /\ initialized' = [initialized EXCEPT ![n] = FALSE]
    /\ last' = Internal
    /\ UNCHANGED <<ppc, pname, psem, pgot, openaiInstalled, orchVars, nonOrchVars>>

\* What the KeyError of acquire leaves behind: nothing.
KeyErrorEffect_block(p, n) ==
    /\ ppc' = [ppc EXCEPT ![p] = "blocked"]
    /\ pname' = [pname EXCEPT ![p] = n]
    /\ UNCHANGED <<clients, initialized, semOf, sems, nsems, psem, pgot, openaiInstalled>>
KeyErrorEffect(p, n) == UNCHANGED poolVars

\* acquire(name) of a name that is not registered
AcquireUnregistered(p, n) ==
    /\ ppc[p] = "idle"
    /\ ~IsRegistered(n)
    /\ KeyErrorEffect(p, n)
    /\ last' = Ev("acquire", None, n, "KeyError", {})
    /\ UNCHANGED <<orchVars, nonOrchVars>>

\* acquire(name) of a registered name: the slot at once when the semaphore is
\* not locked, else the caller queues on the semaphore it found under the name
Acquire(p, n) ==
    /\ ppc[p] = "idle"
    /\ IsRegistered(n)
    /\ LET s == semOf[n]
       IN IF ~Locked(sems, s)
          THEN EnterScope(p, n, s, [sems EXCEPT ![s].value = @ - 1], ppc, "acquire")
          ELSE /\ sems' = [sems EXCEPT ![s].waiters = Append(@, p)]
               /\ ppc' = [ppc EXCEPT ![p] = "blocked"]
               /\ pname' = [pname EXCEPT ![p] = n]
               /\ psem' = [psem EXCEPT ![p] = s]
               /\ last' = Internal
               /\ UNCHANGED <<clients, initialized, pgot>>
    /\ UNCHANGED <<semOf, nsems, openaiInstalled, orchVars, nonOrchVars>>

RemoveWaiter(w, p) == SelectSeq(w, LAMBDA x : x # p)

\* a waiter that was granted a slot resumes: it leaves _waiters, passes a
\* spare slot on if there is one, and goes on into the scope
AcquireResume(p) ==
    /\ ppc[p] = "granted"
    /\ LET s == psem[p]
           S1 == [sems EXCEPT ![s].waiters = RemoveWaiter(@, p)]
           w == IF S1[s].value > 0 THEN FirstBlocked(S1, s, ppc) ELSE 0
           S2 == IF w = 0 THEN S1 ELSE [S1 EXCEPT ![s].value = @ - 1]
           pc2 == IF w = 0 THEN ppc ELSE [ppc EXCEPT ![w] = "granted"]
       IN EnterScope(p, pname[p], s, S2, pc2, "acquire_resume")
    /\ UNCHANGED <<semOf, nsems, openaiInstalled, orchVars, nonOrchVars>>

\* the caller's body ends, by returning or by raising: the finally releases
\* the semaphore this acquire took its slot from
ExitScope(p, how) ==
    /\ ppc[p] = "holding"
    /\ sems' = ReleaseSems(sems, psem[p], ppc)
    /\ ppc' = [ReleasePc(sems, psem[p], ppc) EXCEPT ![p] = "idle"]
    /\ pname' = [pname EXCEPT ![p] = "none"]
    /\ psem' = [psem EXCEPT ![p] = 0]
    /\ pgot' = [pgot EXCEPT ![p] = "none"]
    /\ last' = Ev("release", p, pname[p], how, {})
    /\ UNCHANGED <<clients, initialized, semOf, nsems, openaiInstalled, orchVars, nonOrchVars>>

(***************************************************************************)
(* Initial state and specifications                                        *)
(***************************************************************************)
InitOrch ==
    /\ nextId = 0
    /\ agents = {}
    /\ calls = {}
    /\ spawnPc = [a \in AgentIds |-> "none"]
    /\ stopPc = [a \in AgentIds |-> [c \in Stoppers |-> "none"]]
    /\ awaited = [a \in AgentIds |-> [c \in Stoppers |-> NoTask]]
    /\ cfg = [a \in AgentIds |-> NoCfg]
    /\ dstate = [a \in AgentIds |-> "NONE"]
    /\ task_count = [a \in AgentIds |-> 0]
    /\ last_error = [a \in AgentIds |-> NoError]
    /\ runner = [a \in AgentIds |-> NoTask]
    /\ runs = [a \in AgentIds |-> 0]
    /\ tpc = [a \in AgentIds |-> <<>>]
    /\ stop_event = [a \in AgentIds |-> FALSE]
    /\ started_event = [a \in AgentIds |-> FALSE]
    /\ cur = [a \in AgentIds |-> <<>>]
    /\ on_stop_calls = [a \in AgentIds |-> 0]
    /\ boxes = {}
    /\ queue = [p \in Participants |-> <<>>]
    /\ sent = 0
    /\ scopes = {}
    /\ held = [h \in ScopeHolders |-> NoScope]
    /\ handled = [a \in AgentIds |-> <<>>]
    /\ inserted = {}
    /\ removed = {}
    /\ last = Internal

InitPool ==
    /\ clients = [n \in PoolNames |-> "absent"]
    /\ initialized = [n \in PoolNames |-> FALSE]
    /\ semOf = [n \in PoolNames |-> 0]
    /\ sems = [s \in SemIds |-> [cap |-> 0, value |-> 0, waiters |-> <<>>]]
    /\ nsems = 0
    /\ ppc = [p \in Callers |-> "idle"]
    /\ pname = [p \in Callers |-> "none"]
    /\ psem = [p \in Callers |-> 0]
    /\ pgot = [p \in Callers |-> "none"]

\* The orchestrator with its bus and agents; the pool is not wired.
Init == InitOrch /\ InitPool /\ openaiInstalled = FALSE

\* The steps of the agents' tasks and of the calls that wait for them.
TaskStep ==
    \/ \E a \in AgentIds : SpawnReturn(a)
    \/ \E a \in AgentIds : StopBegin(a)
    \/ \E a \in AgentIds : StopResume(a, 1)
    \/ \E c \in calls : TerminateReturn(c)
    \/ \E a \in AgentIds : \E k \in RunsOf(a) : RunStart(a, k)
    \/ \E a \in AgentIds : \E k \in RunsOf(a) : Idle(a, k)

\* The registry: spawn_agent with every kind of input, terminate_agent and
\* terminate_all, echo agents idling.
Next ==
    \/ \E role \in {"echo", "llm", "unknown-role"}, mcp \in McpInputs :
          SpawnAgent(role, mcp, "s1")
    \/ \E a \in AgentIds : TerminateAgent(a)
    \/ TerminateAll
    \/ TaskStep

Spec == Init /\ [][Next]_vars

\* Teardown: echo agents taken down by terminate_agent, terminate_all and
\* terminate_session, also concurrently.
TeardownNext ==
    \/ SpawnAgent("echo", "echo", "s1")
    \/ \E a \in AgentIds : TerminateAgent(a)
    \/ TerminateAll
    \/ TerminateSession("s1")
    \/ TaskStep

TeardownSpec == Init /\ [][TeardownNext]_vars

\* Faults: agents whose hooks may raise, torn down by terminate_all.
FaultNext ==
    \/ SpawnAgent("custom", "echo", "s1")
    \/ TerminateAll
    \/ TaskStep

FaultSpec == Init /\ [][FaultNext]_vars

\* Sessions: echo agents tagged with one of two sessions, terminate_session.
SessionNext ==
    \/ \E s \in Sessions : SpawnAgent("echo", "echo", s)
    \/ \E s \in Sessions : TerminateSession(s)
    \/ TaskStep

SessionSpec == Init /\ [][SessionNext]_vars

\* Messaging: echo agents and an external client that sends point-to-point
\* and broadcast messages and opens and closes its own mailbox.
BusNext ==
    \/ nextId < BusAgents /\ SpawnAgent("echo", "echo", "s1")
    \/ \E a \in AgentIds : TerminateAgent(a)
    \/ \E a \in AgentIds : SpawnReturn(a)
    \/ \E a \in AgentIds : StopResume(a, 1)
    \/ \E a \in AgentIds : \E k \in RunsOf(a) : RunStart(a, k)
    \/ \E a \in AgentIds : \E k \in RunsOf(a) : Receive(a, k)
    \/ \E a \in AgentIds : \E k \in RunsOf(a) : HandleDone(a, k)
    \/ \E a \in AgentIds : \E k \in RunsOf(a) : Idle(a, k)
    \/ \E r \in Participants \cup {None}, p \in Payloads : ClientSend(r, p, NoCorr)
    \/ ClientOpen
    \/ ClientClose
    \/ ClientRecv

BusSpec == Init /\ [][BusNext]_vars

\* The bus alone, used by callers that register, send and hold deliver scopes.
MailNext ==
    \/ \E id \in Parties : BusRegister(id)
    \/ \E id \in Parties : BusUnregister(id)
    \/ \E id \in Parties : DeliverEnter(id)
    \/ \E id \in Parties : \E how \in ExitPaths : DeliverExit(id, how)
    \/ \E s \in Senders : \E r \in Recipients : BusSend(s, r)
MailSpec == Init /\ [][MailNext]_vars

\* The chat endpoint with the orchestrator agent's mailbox and other senders
\* whose messages are broadcast.
ChatNext ==
    \/ BusRegister(OrchId)
    \/ BusUnregister(OrchId)
    \/ ChatBegin
    \/ ChatReturn
    \/ OrchestratorReply
    \/ \E s \in {Empty, OrchId} : \E r \in {None, Empty} : BusSend(s, r)
ChatSpec == Init /\ [][ChatNext]_vars

\* One echo agent answering requests that carry a correlation identifier or
\* none and a payload it can read or not, also while it is being terminated.
EchoNext ==
    \/ nextId = 0 /\ SpawnAgent("echo", "echo", "s1")
    \/ \E a \in AgentIds : TerminateAgentSeen(a)
    \/ \E a \in AgentIds : SpawnReturn(a)
    \/ \E a \in AgentIds : StopResume(a, 1)
    \/ \E a \in AgentIds : \E k \in RunsOf(a) : RunStart(a, k)
    \/ \E a \in AgentIds : \E k \in RunsOf(a) : Receive(a, k)
    \/ \E a \in AgentIds : \E k \in RunsOf(a) : HandleDone(a, k)
    \/ \E a \in AgentIds : \E k \in RunsOf(a) : Idle(a, k)
    \/ \E r \in AgentIds \cup {None}, p \in Payloads, c \in Corrs : ClientSendSeen(r, p, c)
    \/ ClientOpen
    \/ ClientClose

EchoSpec == Init /\ [][EchoNext]_vars

\* One agent object driven directly: start() and stop() called by several
\* coroutines, messages from the client, hooks that may raise.
AgentNext ==
    \/ \E role \in {"custom", "echo"} : nextId = 0 /\ Construct(role)
    \/ \E a \in AgentIds : Start(a)
    \/ \E a \in AgentIds, c \in Stoppers : Stop(a, c)
    \/ \E a \in AgentIds : SpawnReturn(a)
    \/ \E a \in AgentIds, c \in Stoppers : StopResume(a, c)
    \/ \E a \in AgentIds : \E k \in RunsOf(a) : RunStart(a, k)
    \/ \E a \in AgentIds : \E k \in RunsOf(a) : Receive(a, k)
    \/ \E a \in AgentIds : \E k \in RunsOf(a) : HandleDone(a, k)
    \/ \E a \in AgentIds : \E k \in RunsOf(a) : Idle(a, k)
    \/ \E a \in AgentIds : \E k \in RunsOf(a) : IdleDone(a, k)
    \/ \E a \in AgentIds : ClientSend(a, "ping", NoCorr)

AgentSpec == Init /\ [][AgentNext]_vars

\* One agent whose hooks and handler may raise, started, stopped and started
\* again by one caller at a time.
RestartNext ==
    \/ nextId = 0 /\ Construct("custom")
    \/ \E a \in AgentIds : Start(a)
    \/ \E a \in AgentIds : Stop(a, 1)
    \/ \E a \in AgentIds : SpawnReturn(a)
    \/ \E a \in AgentIds : StopResume(a, 1)
    \/ \E a \in AgentIds : \E k \in RunsOf(a) : RunStart(a, k)
    \/ \E a \in AgentIds : \E k \in RunsOf(a) : Receive(a, k)
    \/ \E a \in AgentIds : \E k \in RunsOf(a) : HandleDone(a, k)
    \/ \E a \in AgentIds : \E k \in RunsOf(a) : Idle(a, k)
    \/ \E a \in AgentIds : \E k \in RunsOf(a) : IdleDone(a, k)
    \/ \E a \in AgentIds : ClientSend(a, "ping", NoCorr)

LoopSpec == Init /\ [][RestartNext]_vars

\* The pool alone, used by NumCallers coroutines; whether the openai package
\* can be imported is a fact of the installation.
PoolInit == InitOrch /\ InitPool /\ openaiInstalled \in BOOLEAN

PoolNext ==
    \/ \E n \in PoolNames, k \in 1..MaxConcurrent, ok \in BOOLEAN : RegisterAzureOpenAI(n, k, ok)
    \/ \E p \in Callers, n \in PoolNames : AcquireUnregistered(p, n)
    \/ \E p \in Callers, n \in PoolNames : Acquire(p, n)
    \/ \E p \in Callers : AcquireResume(p)
    \/ \E p \in Callers, how \in {"return", "raise"} : ExitScope(p, how)

PoolSpec == PoolInit /\ [][PoolNext]_vars

(***************************************************************************)
(* Properties                                                              *)
(***************************************************************************)
ListIdsBySession(s) == {d.agent_id : d \in ListBySession(s)}
Holders(n) == {p \in Callers : ppc[p] = "holding" /\ pname[p] = n}
SlotOwners(s) == {p \in Callers : psem[p] = s /\ ppc[p] \in {"holding", "granted"}}

C2_StartReturnsRunningOrFailed ==
    last.op = "start_returned" => last.s \in {"RUNNING", "FAILED"}

\* C3: a spawn_agent call whose role is not in the catalog fails with the
\* role-not-found error and changes neither the registry nor the bus, and no
\* descriptor, runtime or task comes into being.
C3_UnknownRoleSpawn ==
    [][(last'.op = "spawn_agent" /\ last'.s \notin Catalog)
         => /\ last'.out = "RoleNotFound"
            /\ UNCHANGED <<orchVars, agentVars, busVars>>
            /\ Cardinality(ListAgents') = Cardinality(ListAgents)]_vars

\* a spawn with an unknown role has just failed while an agent is registered
C3_Witness ==
    /\ last.op = "spawn_agent" /\ last.s = "unknown-role" /\ last.out = "RoleNotFound"
    /\ agents # {}
    /\ boxes # {}

\* C4: every spawn_agent call either inserts the new agent into the registry
\* and starts its loop, or raises and leaves the registry and the mailbox
\* table as they were.
C4_SpawnAllOrNothing ==
    [][last'.op = "spawn_agent"
         => IF last'.out = "ok"
            THEN /\ last'.id \notin agents
                 /\ agents' = agents \cup {last'.id}
                 /\ runner'[last'.id] # NoTask
                 /\ tpc'[last'.id][runner'[last'.id]] = "created"
                 /\ UNCHANGED busVars
            ELSE /\ last'.out \in {"RoleNotFound", "TargetNotFound", "ConstructFault"}
                 /\ UNCHANGED <<orchVars, agentVars, busVars>>]_vars

\* a spawn has just failed on the target or in the constructor, with an agent
\* registered and a mailbox in the bus
C4_Witness ==
    /\ last.op = "spawn_agent" /\ last.out \in {"TargetNotFound", "ConstructFault"}
    /\ agents # {}
    /\ boxes # {}

\* C5: the messages an agent's handle_message is invoked on come in the order
\* in which their sends completed: the send numbers of the handled messages
\* increase, and whatever is still queued was sent after everything handled.
C5_HandledInSendOrder ==
    \A a \in AgentIds :
        /\ \A i, j \in 1..Len(handled[a]) : i < j => handled[a][i] < handled[a][j]
        /\ \A i \in 1..Len(handled[a]), k \in 1..Len(queue[a]) :
              handled[a][i] < queue[a][k].seq
        /\ \A k, l \in 1..Len(queue[a]) : k < l => queue[a][k].seq < queue[a][l].seq

\* an agent has handled two messages while the client's mailbox holds traffic
C5_Witness ==
    \E a \in AgentIds :
        /\ Len(handled[a]) >= 2
        /\ queue[Client] # <<>>

\* C6: the step of terminate_session(s) that takes the entries out leaves no
\* entry of session s and the entries of every other session as they were;
\* the rest of the call does not touch the registry, so that when it returns
\* the only entries of s are those spawned after that step.
C6_SessionTeardown ==
    [][/\ \A s \in Sessions :
            (last'.op = "terminate_session" /\ last'.s = s)
              => /\ ListIdsBySession(s)' = {}
                 /\ \A t \in Sessions \ {s} : ListIdsBySession(t)' = ListIdsBySession(t)
       /\ \A s \in Sessions :
            (last'.op = "terminate_session_return" /\ last'.s = s)
              => /\ agents' = agents
                 /\ \A a \in ListIdsBySession(s)' : a > last'.id]_vars

\* terminate_session has just removed entries while another session has some
C6_Witness ==
    /\ last.op = "terminate_session"
    /\ last.set # {}
    /\ \E t \in Sessions \ {last.s} : ListIdsBySession(t) # {}

\* C7: terminate_all empties the registry and returns normally, after every
\* stop() it started has ended, also when some of them raised.
C7_TerminateAllIsolatesFaults ==
    [][/\ last'.op = "terminate_all" => agents' = {}
       /\ last'.op = "terminate_all_return"
            => /\ last'.out = "returned"
               /\ agents' = agents
               /\ \A a \in last'.set :
                     /\ stopPc'[a][1] \in {"returned", "raised"}
                     /\ \A k \in 1..runs'[a] : tpc'[a][k] \in {"done", "raised"}]_vars

\* terminate_all has returned, one of its stop()s having raised and another not
C7_Witness ==
    /\ last.op = "terminate_all_return"
    /\ \E a, b \in last.set : stopPc[a][1] = "raised" /\ stopPc[b][1] = "returned"

\* C8: the callers inside an acquire(name) scope are never more than the
\* maximum the name's registration declares.
C8_AtMostNHolders ==
    \A n \in PoolNames :
        IsRegistered(n) => Cardinality(Holders(n)) <= sems[semOf[n]].cap

\* C9: acquire of a name that is not registered fails with the
\* resource-not-registered error, and nothing of the pool changes: no caller
\* waits, no slot is taken.
C9_UnregisteredFailsAtOnce ==
    [][\A n \in PoolNames :
          (last'.op = "acquire" /\ last'.s = n /\ ~IsRegistered(n))
            => /\ last'.out = "KeyError"
               /\ UNCHANGED poolVars]_vars

\* an acquire has just failed on an unknown name while another name has a holder
C9_Witness ==
    /\ last.op = "acquire" /\ last.out = "KeyError"
    /\ \E p \in Callers : ppc[p] = "holding" /\ pname[p] # last.s

\* C10: for every semaphore the pool created, the free slots and the slots
\* owned by callers add up to its capacity: no exit of a scope leaks its slot
\* or releases more than it took.
C10_SlotsConserved ==
    \A s \in 1..nsems :
        /\ sems[s].value >= 0
        /\ sems[s].value + Cardinality(SlotOwners(s)) = sems[s].cap
        /\ \A p \in Callers : ppc[p] = "idle" => psem[p] = 0

\* a scope has just been left through a constructor fault, another caller being inside
C10_Witness ==
    /\ last.op \in {"acquire", "acquire_resume"} /\ last.out = "ConstructFault"
    /\ \E p \in Callers : ppc[p] = "holding"

\* C11: when an echo agent's handler ends for a message with sender s and
\* content "ping", it has sent exactly one message; when s has a mailbox that
\* message is appended there and is the reply: recipient s, the agent as
\* sender, the request's correlation identifier and a payload that contains
\* "heard ping"; no other mailbox changes.
C11_EchoRepliesToSender ==
    [][\A a \in AgentIds : \A k \in RunsOf(a) :
          (cfg[a].role = "echo" /\ tpc[a][k] = "handling" /\ tpc'[a][k] # "handling"
             /\ cur[a][k].payload = "ping")
          => LET m == cur[a][k]
                 r == [seq |-> sent + 1, sender |-> a, recipient |-> m.sender,
                       payload |-> "heard ping", corr |-> m.corr]
             IN /\ sent' = sent + 1
                /\ m.sender \in boxes => queue'[m.sender] = Append(queue[m.sender], r)
                /\ m.sender \notin boxes => queue'[m.sender] = queue[m.sender]
                /\ \A p \in Participants \ {m.sender, a} : queue'[p] = queue[p]]_vars

\* the client's mailbox holds an echo agent's replies to a request that
\* carried a correlation identifier and to one that carried none
C11_Witness ==
    \E a \in AgentIds :
        /\ \E i, j \in 1..Len(queue[Client]) :
              /\ queue[Client][i].sender = a /\ queue[Client][i].corr = "c1"
              /\ queue[Client][j].sender = a /\ queue[Client][j].corr = NoCorr

\* the agent was never started, or a stop() of its latest run has ended and
\* no stop() is under way
StopCompleted(a) ==
    /\ a <= nextId
    /\ \/ runs[a] = 0
       \/ /\ \A c \in Stoppers : stopPc[a][c] \notin {"scheduled", "joining"}
          /\ \E c \in Stoppers :
                stopPc[a][c] \in {"returned", "raised"} /\ awaited[a][c] = runs[a]

\* C12: a stop() call on an agent whose previous stop() has ended, or that was
\* never started, changes neither the descriptor's state, task count and last
\* error nor the number of on_stop invocations.
C12_StopIdempotent ==
    [][\A a \in AgentIds :
          (last'.op = "stop" /\ last'.id = a /\ StopCompleted(a))
          => /\ dstate'[a] = dstate[a]
             /\ task_count'[a] = task_count[a]
             /\ last_error'[a] = last_error[a]
             /\ on_stop_calls'[a] = on_stop_calls[a]]_vars

\* the _run_safe tasks of an agent that have not ended
LiveRuns(a) == {k \in RunsOf(a) : tpc[a][k] \in {"created", "waiting", "handling", "idling"}}

C14_DeliverExitUnregisters ==
    [][\A id \in Parties :
          (id \in scopes /\ id \notin scopes')
          => /\ last'.op = "deliver_exit" /\ last'.id = id /\ last'.out \in ExitPaths
             /\ id \notin boxes'
             /\ queue'[id] = <<>>
             /\ \A p \in Parties \ {id} : (p \in boxes') = (p \in boxes) /\ queue'[p] = queue[p]]_vars
\* a body that raised has left its scope while another mailbox holds a message
C14_Witness ==
    \E id \in Parties :
        /\ last.op = "deliver_exit" /\ last.id = id /\ last.out = "raise"
        /\ id \notin boxes
        /\ \E p \in boxes : queue[p] # <<>>

\* C15: a send whose message names a recipient that has no mailbox returns
\* normally and changes nothing: no mailbox appears for the recipient and the
\* contents of every mailbox stay as they were.
C15_UnknownRecipientDropped ==
    [][\A r \in Recipients \ {None} :
          (last'.op = "send" /\ sent' = sent + 1 /\ last'.set = {r} /\ r \notin boxes)
          => /\ last'.out = "returned"
             /\ boxes' = boxes
             /\ queue' = queue]_vars

\* C16: a send of a message without a recipient appends exactly one copy of
\* the message to every mailbox registered at that moment other than the
\* sender's, and leaves the sender's own mailbox and the set of mailboxes as
\* they were.
C16_BroadcastReachesOthers ==
    [][(last'.op = "send" /\ sent' = sent + 1 /\ last'.set = {None})
       => LET m == BusMessage(last'.id, None, sent + 1)
          IN /\ boxes' = boxes
             /\ \A p \in Participants :
                  IF p \in boxes /\ p # last'.id
                  THEN queue'[p] = Append(queue[p], m)
                  ELSE queue'[p] = queue[p]]_vars
\* a registered sender has broadcast: the other mailbox got the copy, its own did not
C16_Witness ==
    /\ last.op = "send" /\ last.set = {None} /\ last.id = Client
    /\ Client \in boxes
    /\ \A i \in 1..Len(queue[Client]) : queue[Client][i].seq # sent
    /\ \E p \in boxes \ {Client} :
         /\ queue[p] # <<>>
         /\ queue[p][Len(queue[p])] = BusMessage(Client, None, sent)
         /\ Cardinality({i \in 1..Len(queue[p]) : queue[p][i].seq = sent}) = 1

\* C17: every change of a descriptor's state is a move along the machine
\* SPAWNING -> RUNNING -> (STOPPING -> STOPPED) | FAILED, several moves of one
\* uninterrupted run counted as one change, and a state of STOPPED or FAILED
\* never changes again.
C17_StateMachine ==
    [][\A a \in AgentIds :
          dstate'[a] # dstate[a]
          => <<dstate[a], dstate'[a]>> \in
               {<<"NONE", "SPAWNING">>,
                <<"SPAWNING", "RUNNING">>, <<"SPAWNING", "STOPPING">>,
                <<"SPAWNING", "STOPPED">>, <<"SPAWNING", "FAILED">>,
                <<"RUNNING", "STOPPING">>, <<"RUNNING", "STOPPED">>, <<"RUNNING", "FAILED">>,
                <<"STOPPING", "STOPPED">>, <<"STOPPING", "FAILED">>}]_vars

\* C18: an agent whose loop has faulted (the loop's except branch has recorded
\* the cause in last_error) and that is still in the registry is listed with
\* state FAILED and a non-null last_error, whatever its role.
C18_FaultedStaysFailed ==
    \A a \in agents :
        last_error[a] # NoError
        => /\ GetAgent(a).state = "FAILED" /\ GetAgent(a).last_error # NoError
           /\ \E d \in ListAgents :
                d.agent_id = a /\ d.state = "FAILED" /\ d.last_error # NoError

\* C19: every run of an agent's loop invokes on_stop exactly once, in the step
\* in which that run leaves the loop, be it through a stop request or through
\* a fault of on_start, handle_message or on_idle; no step invokes it for a run
\* that goes on, and a run that has left never runs again.
C19_OnStopOncePerRun ==
    [][\A a \in AgentIds :
          LET Over(st) == st \in {"done", "raised"}
              exiting == {k \in RunsOf(a) : ~Over(tpc[a][k]) /\ Over(tpc'[a][k])}
          IN /\ on_stop_calls'[a] = on_stop_calls[a] + Cardinality(exiting)
             /\ \A k \in RunsOf(a) : Over(tpc[a][k]) => tpc'[a][k] = tpc[a][k]]_vars
\* a first run ended by stop() and a restarted run ended by a handler fault:
\* two runs, two invocations
C19_Witness ==
    \E a \in AgentIds :
        /\ runs[a] = 2
        /\ tpc[a][1] = "done" /\ tpc[a][2] \in {"done", "raised"}
        /\ on_stop_calls[a] = 2
        /\ task_count[a] > 0
        /\ last_error[a] = "handle_message raised"
        /\ dstate[a] = "FAILED"

\* C20: for every agent at most one handle_message invocation is in flight at
\* any instant, and no on_idle or on_stop invocation of the agent runs while a
\* handle_message invocation of it is in flight.
C20_HandlerSerialized ==
    /\ [](\A a \in AgentIds :
            Cardinality({k \in RunsOf(a) : tpc[a][k] = "handling"}) <= 1)
    /\ [][\A a \in AgentIds : \A k \in RunsOf(a) :
            (tpc[a][k] = "handling" /\ tpc'[a][k] = "handling")
            => /\ on_stop_calls'[a] = on_stop_calls[a]
               /\ \A j \in RunsOf(a) \ {k} : tpc[a][j] = "waiting" => tpc'[a][j] # "done"]_vars

\* C21: the message chat returns as the orchestrator's answer carries the
\* correlation identifier of the request chat sent; a chat that was given no
\* such message returns the busy response.
C21_ChatReplyCorrelated ==
    (last.op = "chat" /\ last.out = "reply") => last.set = {ChatCorr}

\* C22: when a handle_message call ends with an exception of any type (the
\* call is over and task_count was not incremented), the run leaves its loop in
\* the same step, never to receive again, the state is FAILED and last_error is
\* recorded.
C22_AnyFaultFails ==
    [][\A a \in AgentIds : \A k \in RunsOf(a) :
          (tpc[a][k] = "handling" /\ tpc'[a][k] # "handling" /\ task_count'[a] = task_count[a])
          => /\ tpc'[a][k] \in {"done", "raised"}
             /\ dstate'[a] = "FAILED"
             /\ last_error'[a] # NoError]_vars

\* C23: an on_idle invocation belongs to an iteration whose receive wait timed
\* out: while on_idle is in flight, the iteration has dequeued no message.
C23_IdleOnlyOnTimeout ==
    \A a \in AgentIds : \A k \in RunsOf(a) :
        tpc[a][k] = "idling" => cur[a][k] = NoMsg

\* C24: an agent's task_count changes only in a step in which one of its
\* handle_message calls ends, by exactly one when the call returned (for the
\* echo agent: the payload was a mapping) and not at all when it raised; an
\* idle tick or any other step leaves it alone.  The counter starts at zero,
\* so it always equals the number of messages handled to a normal return.
C24_TaskCountCountsReturns ==
    [][\A a \in AgentIds :
          LET ended == {k \in RunsOf(a) : tpc[a][k] = "handling" /\ tpc'[a][k] # "handling"}
              returned == {k \in ended : ~EchoFaults(cur[a][k])}
          IN task_count'[a] = task_count[a] + Cardinality(returned)]_vars
\* one message handled to its end and counted, a second whose handler raised
C24_Witness ==
    \E a \in AgentIds :
        /\ Len(handled[a]) = 2
        /\ task_count[a] = 1
        /\ last_error[a] = "handle_message raised"

\* C25: terminate_agent, terminate_session and terminate_all take the entry
\* out of the registry before the runtime's stop() begins: no agent that
\* get_agent / list_agents still return has a stop() of a terminate operation
\* scheduled, under way or finished, nor a state of STOPPING or STOPPED.
C25_RemovedBeforeStop ==
    \A a \in agents :
        /\ stopPc[a][1] = "none"
        /\ GetAgent(a).state \notin {"STOPPING", "STOPPED"}
        /\ \A d \in ListAgents : d.agent_id = a => d.state \notin {"STOPPING", "STOPPED"}
\* one agent is in the middle of its teardown, out of the registry, while
\* another is still registered and running
C25_Witness ==
    \E a, b \in AgentIds :
        /\ a \in removed /\ a \notin agents
        /\ dstate[a] = "STOPPING" /\ stopPc[a][1] = "joining"
        /\ b \in agents /\ dstate[b] = "RUNNING"

\* C26: in the state in which a terminate_agent(id) call has returned, the
\* agent that was registered under id is quiesced: every run of its loop has
\* exited (so no handler of it is running), on_stop has run for each of them
\* and the bus holds no mailbox for id.  This is required of every caller, also
\* of one whose call found the entry already taken by another terminate call.
C26_TerminateReturnsQuiesced ==
    (last.op = "terminate_agent_return" /\ last.out \in {"returned", "absent"})
    => LET a == last.id
       IN /\ \A k \in RunsOf(a) : tpc[a][k] \in {"done", "raised"}
          /\ on_stop_calls[a] = runs[a]
          /\ a \notin boxes

\* C27: once the terminate_agent, terminate_session or terminate_all call that
\* took an agent out of the registry is over, the bus holds no mailbox for that
\* agent, at the return and ever after.
C27_NoOrphanedMailbox ==
    \A a \in removed :
        (\A c \in calls : a \notin c.targets) => a \notin boxes
\* a terminate_session call has returned for an agent that had been running,
\* while an agent spawned meanwhile keeps its mailbox
C27_Witness ==
    \E a, b \in AgentIds :
        /\ last.op = "terminate_session_return" /\ a \in last.set
        /\ a \in removed /\ dstate[a] = "STOPPED" /\ a \notin boxes
        /\ b \in agents /\ b \in boxes

\* C28: whenever an agent's descriptor state is RUNNING the bus holds the
\* mailbox of that agent (one queue under its identifier), and a point-to-point
\* message sent to an agent whose spawn has returned and whose state is RUNNING
\* is appended to that mailbox.
C28_RunningHasMailbox ==
    /\ [](\A a \in AgentIds : dstate[a] = "RUNNING" => a \in boxes)
    /\ [][\A a \in AgentIds :
            (last'.op = "send" /\ last'.set = {a} /\ sent' = sent + 1
               /\ dstate[a] = "RUNNING" /\ spawnPc[a] = "returned")
            => /\ Len(queue'[a]) = Len(queue[a]) + 1
               /\ queue'[a][Len(queue'[a])].seq = sent + 1
               /\ queue'[a][Len(queue'[a])].recipient = a]_vars
\* a message has just been sent to a running agent whose spawn had returned and
\* sits in its mailbox
C28_Witness ==
    \E a \in AgentIds :
        /\ last.op = "send" /\ last.set = {a}
        /\ dstate[a] = "RUNNING" /\ spawnPc[a] = "returned"
        /\ a \in boxes /\ queue[a] # <<>> /\ queue[a][Len(queue[a])].seq = sent

LoopStep(a, k) ==
    \/ RunStart(a, k)
    \/ Receive(a, k)
    \/ HandleDone(a, k)
    \/ Idle(a, k)
    \/ IdleDone(a, k)

\* asyncio runs a ready task: a loop task whose wait, handler or hook is over,
\* a start() whose barrier was released, a stop() whose awaited task ended.
TasksRun ==
    \A a \in AgentIds :
        /\ WF_vars(SpawnReturn(a))
        /\ \A c \in Stoppers : WF_vars(StopResume(a, c))
        /\ \A k \in Runs : WF_vars(k \in RunsOf(a) /\ LoopStep(a, k))

\* One agent object driven directly, under a fair event loop.
FairAgentSpec == Init /\ [][AgentNext]_vars /\ TasksRun

\* C30: while every handler and hook invocation terminates, every stop() call
\* on a started agent eventually returns (or raises what the loop raised): a
\* stop() that waits for the loop task does not wait forever.
C30_StopReturns ==
    \A a \in AgentIds : \A c \in Stoppers :
        (stopPc[a][c] = "joining") ~> (stopPc[a][c] # "joining")

\* The event loop resumes a caller whose semaphore future was resolved, and
\* every caller inside an acquire scope eventually leaves it.
HoldersLeave ==
    \A p \in Callers :
        /\ WF_vars(AcquireResume(p))
        /\ WF_vars(\E how \in {"return", "raise"} : ExitScope(p, how))

\* One resource name, registered and registered again while callers wait for
\* its slots and hold them, under a fair event loop, with holders that leave.
WaitNext ==
    \/ \E k \in 1..MaxConcurrent, ok \in BOOLEAN : RegisterAzureOpenAI("gpt-4", k, ok)
    \/ \E p \in Callers : Acquire(p, "gpt-4")
    \/ \E p \in Callers : AcquireResume(p)
    \/ \E p \in Callers, how \in {"return", "raise"} : ExitScope(p, how)

FairPoolSpec == PoolInit /\ [][WaitNext]_vars /\ HoldersLeave

\* C31: a caller that waits in acquire(name) for a slot eventually has one
\* (it enters its scope, or its acquire ends with the constructor's fault after
\* the slot was taken), whatever other callers arrive later.
C31_WaiterObtainsSlot ==
    \A p \in Callers :
        (ppc[p] \in {"blocked", "granted"}) ~> (ppc[p] \in {"holding", "idle"})

\* a caller waits, first in line, for the slot another caller holds
C31_Witness ==
    \E p, q \in Callers :
        /\ p # q
        /\ ppc[p] = "blocked" /\ ppc[q] = "holding"
        /\ psem[p] = psem[q]
        /\ sems[psem[p]].waiters = <<p>>

\* C32: registering a name stores the configuration and constructs nothing;
\* the client of a registration is constructed in the step in which the first
\* caller enters its scope, and from then until the name is registered again
\* the stored client is never replaced and every caller that enters a scope
\* receives it.
C32_ConstructedOnce ==
    [][\A n \in PoolNames :
          /\ semOf'[n] # semOf[n]
             => clients'[n] \in {"config", "config_bad"} /\ ~initialized'[n]
          /\ (semOf'[n] = semOf[n] /\ clients'[n] # clients[n])
             => /\ ~initialized[n] /\ initialized'[n]
                /\ clients[n] \in {"config", "config_bad"}
                /\ clients'[n] \in {"mock", "real"}
                /\ \E p \in Callers :
                      ppc[p] # "holding" /\ ppc'[p] = "holding" /\ pname'[p] = n
          /\ (semOf'[n] = semOf[n] /\ initialized[n])
             => initialized'[n] /\ clients'[n] = clients[n]
          /\ \A p \in Callers :
                (ppc[p] # "holding" /\ ppc'[p] = "holding" /\ pname'[p] = n)
                   => /\ pgot'[p] = clients'[n]
                      /\ clients'[n] \in {"mock", "real"}
                      /\ initialized'[n]
                      /\ initialized[n] => pgot'[p] = clients[n]]_vars

\* the name was registered once; a caller that waited while the first acquirer
\* held the only slot has just entered its scope and received the client that
\* acquirer constructed
C32_Witness ==
    /\ last.op = "acquire_resume" /\ last.out = "entered"
    /\ nsems = 1
    /\ \E p \in Callers :
          /\ last.id = p /\ ppc[p] = "holding"
          /\ semOf[pname[p]] = 1 /\ psem[p] = 1
          /\ initialized[pname[p]]
          /\ pgot[p] = clients[pname[p]] /\ pgot[p] \in {"mock", "real"}

\* An agent whose hooks and handler may raise, spawned first, next to echo
\* agents, all of them receiving messages from a client that may open a
\* mailbox of its own.
IsolationNext ==
    \/ SpawnAgent(IF nextId = 0 THEN "custom" ELSE "echo", "echo", "s1")
    \/ \E a \in AgentIds : SpawnReturn(a)
    \/ \E a \in AgentIds : \E k \in RunsOf(a) : RunStart(a, k)
    \/ \E a \in AgentIds : \E k \in RunsOf(a) : Receive(a, k)
    \/ \E a \in AgentIds : \E k \in RunsOf(a) : HandleDone(a, k)
    \/ \E a \in AgentIds : \E k \in RunsOf(a) : Idle(a, k)
    \/ \E a \in AgentIds : \E k \in RunsOf(a) : IdleDone(a, k)
    \/ \E r \in AgentIds : ClientSend(r, "ping", NoCorr)
    \/ ClientOpen

IsolationSpec == Init /\ [][IsolationNext]_vars

\* C33: the step in which a hook or the handler of agent A raises out of A's
\* loop (last_error is written, or the loop task ends with an exception)
\* removes A's mailbox and writes A's descriptor, and nothing else: the
\* registry, the calls in progress, every other agent's descriptor, loop and
\* events and every other mailbox with its contents are as before, and a
\* start() that waits for A is released, not failed.
C33_FaultIsolated ==
    [][\A a \in AgentIds :
          (\/ last_error'[a] # last_error[a]
           \/ \E k \in RunsOf(a) : tpc[a][k] # "raised" /\ tpc'[a][k] = "raised")
          => /\ agents' = agents /\ nextId' = nextId /\ calls' = calls
             /\ inserted' = inserted /\ removed' = removed
             /\ spawnPc' = spawnPc /\ stopPc' = stopPc
             /\ started_event'[a]
             /\ boxes' = boxes \ {a}
             /\ sent' = sent
             /\ \A p \in Participants \ {a} : queue'[p] = queue[p]
             /\ \A b \in AgentIds \ {a} :
                   /\ Descriptor(b)' = Descriptor(b)
                   /\ cfg'[b] = cfg[b]
                   /\ tpc'[b] = tpc[b] /\ cur'[b] = cur[b] /\ runs'[b] = runs[b]
                   /\ runner'[b] = runner[b]
                   /\ stop_event'[b] = stop_event[b] /\ started_event'[b] = started_event[b]
                   /\ on_stop_calls'[b] = on_stop_calls[b]
                   /\ handled'[b] = handled[b]]_vars

\* an agent's loop has faulted in its handler while another agent is running
\* with a message waiting in its mailbox
C33_Witness ==
    \E a, b \in AgentIds :
        /\ a # b
        /\ dstate[a] = "FAILED" /\ last_error[a] = "handle_message raised"
        /\ a \in agents /\ a \notin boxes
        /\ dstate[b] = "RUNNING" /\ b \in boxes /\ queue[b] # <<>>

\* Callers that hold deliver scopes, several of them for one identifier, while
\* messages are sent to the identifiers and broadcast.
ScopeNext ==
    \/ \E h \in ScopeHolders, id \in Parties : ScopeEnter(h, id)
    \/ \E h \in ScopeHolders, how \in ExitPaths : ScopeExit(h, how)
    \/ \E s \in Senders : \E r \in Parties \cup {None} : BusSend(s, r)

ScopeSpec == Init /\ [][ScopeNext]_vars

\* C34: as long as a deliver(id) scope is open, the queue it was given is the
\* mailbox registered under id (so what is sent to id arrives in it), also
\* after another scope for id was opened and left.
C34_ScopeKeepsMailbox ==
    \A h \in ScopeHolders :
        held[h] # NoScope => held[h].own /\ held[h].id \in boxes

====
